---- MODULE Spec2Model ----
(***************************************************************************)
(* State-machine model of src/discord-bot/bot.py: the per-guild            *)
(* configuration store (BotConfig and ModerationCog.configs), the control  *)
(* panel sessions (ControlPanelView) and the ban pipeline                  *)
(* (ModerationCog.ban_with_welcome and its two entry points).              *)
(***************************************************************************)
EXTENDS Integers, Sequences, FiniteSets, TLC

VARIABLES
    files,      \* guild id -> content of configs/config_<guild_id>.json
    configs,    \* ModerationCog.configs: guild id -> BotConfig.config (a dict)
    sessions,   \* the ControlPanelView objects created so far
    ban,        \* the one ban invocation a run follows from call to return
    used,       \* how much of MaxOps the run has used
    last        \* what the last operation was and what it answered

vars == <<files, configs, sessions, ban, used, last>>

-----------------------------------------------------------------------------
(* Bounds of the model *)

MaxOps == 3         \* toggles, outside edits, failed writes and panels
                    \* opened in one run
MaxSessions == 2    \* control panels opened in one run
MaxRank == 1        \* top_role positions are 0 .. MaxRank

-----------------------------------------------------------------------------
(* Data *)

Guilds == {"g1", "g2"}
Users == {"u1", "u2"}

\* the keys of BotConfig.default_config
CanonicalKeys ==
    {"ban_function", "welcome_messages", "auto_moderation", "logs",
     "dm_notifications", "anti_spam", "auto_role"}

\* a key that is not canonical: a file may hold it, a caller may name it
ExtraKey == "custom_flag"
Names == CanonicalKeys \cup {ExtraKey}

\* default_config with auto_moderation switched on
default_config_auto_on ==
    [k \in CanonicalKeys |->
        k \in {"ban_function", "welcome_messages", "auto_moderation", "logs",
               "dm_notifications"}]

default_config ==
    [k \in CanonicalKeys |->
        k \in {"ban_function", "welcome_messages", "logs", "dm_notifications"}]

\* self.config = {} in BotConfig.__init__; also a dict with no keys in a file
EmptyDict == [k \in {} |-> TRUE]

\* Put(d, k, v): the dict d after d[k] = v
Put(d, k, v) == [j \in DOMAIN d \cup {k} |-> IF j = k THEN v ELSE d[j]]

\* A config file: absent, unreadable (not JSON, or JSON that is no object),
\* or a JSON object of booleans.
Absent == [kind |-> "absent", data |-> EmptyDict]
Corrupt == [kind |-> "corrupt", data |-> EmptyDict]
Object(d) == [kind |-> "object", data |-> d]

OnlyBanOff == Put(EmptyDict, "ban_function", FALSE)
Legacy == Put(Put(Put(EmptyDict, "ban_function", FALSE), "anti_spam", TRUE),
              ExtraKey, TRUE)

\* the files an edit from outside the process may leave
FileSamples == {Absent, Corrupt, Object(OnlyBanOff), Object(Legacy)}

\* how a write of save_config can end: written; open() refused, the file is
\* as it was; open(..., 'w') truncated the file and the dump then failed
WriteOutcomes == {"ok", "denied", "torn"}

BoolStr(b) == IF b THEN "True" ELSE "False"

-----------------------------------------------------------------------------
(* BotConfig *)

\* save_config: the file after the write; never raises
save_config(config, file, wr) ==
    CASE wr = "ok" -> Object(config)
      [] wr = "denied" -> file
      [] OTHER -> Corrupt

\* the backfill with the precedence reversed: defaults win over stored values
backfill_defaults_win(data) ==
    [k \in DOMAIN data \cup CanonicalKeys |->
        IF k \in CanonicalKeys THEN default_config[k] ELSE data[k]]

\* the loop of load_config that adds the default keys the file lacks
backfill(data) ==
    [k \in DOMAIN data \cup CanonicalKeys |->
        IF k \in DOMAIN data THEN data[k] ELSE default_config[k]]

\* load_config: self.config and the file after it; never raises
load_config(file, wr) ==
    CASE file.kind = "object" ->
            [config |-> backfill(file.data),
             file |-> save_config(backfill(file.data), file, wr),
             wrote |-> TRUE]
      [] file.kind = "absent" ->
            [config |-> default_config,
             file |-> save_config(default_config, file, wr),
             wrote |-> TRUE]
      [] OTHER ->
            [config |-> default_config, file |-> file, wrote |-> FALSE]

\* toggle_function that switches the flag on instead of flipping it
toggle_function_sets(config, file, name, wr) ==
    IF name \in DOMAIN config
    THEN LET c == [config EXCEPT ![name] = TRUE]
         IN [config |-> c, file |-> save_config(c, file, wr),
             ret |-> BoolStr(c[name]), wrote |-> TRUE]
    ELSE [config |-> config, file |-> file, ret |-> "None", wrote |-> FALSE]

\* toggle_function without the membership test: not self.config.get(name)
toggle_function_get(config, file, name, wr) ==
    LET c == Put(config, name,
                 IF name \in DOMAIN config THEN ~config[name] ELSE TRUE)
    IN [config |-> c, file |-> save_config(c, file, wr),
        ret |-> BoolStr(c[name]), wrote |-> TRUE]

\* toggle_function without its save_config
toggle_function_unsaved(config, file, name, wr) ==
    IF name \in DOMAIN config
    THEN LET c == [config EXCEPT ![name] = ~config[name]]
         IN [config |-> c, file |-> file, ret |-> BoolStr(c[name]),
             wrote |-> TRUE]
    ELSE [config |-> config, file |-> file, ret |-> "None", wrote |-> FALSE]

\* toggle_function: self.config, the file and the returned value
toggle_function(config, file, name, wr) ==
    IF name \in DOMAIN config
    THEN LET c == [config EXCEPT ![name] = ~config[name]]
         IN [config |-> c, file |-> save_config(c, file, wr),
             ret |-> BoolStr(c[name]), wrote |-> TRUE]
    ELSE [config |-> config, file |-> file, ret |-> "None", wrote |-> FALSE]

is_enabled(config, name) ==
    IF name \in DOMAIN config THEN config[name] ELSE FALSE

-----------------------------------------------------------------------------
(* ModerationCog.get_config *)

\* get_config that constructs a BotConfig at every call
get_config_reload(cfgs, fls, g, wr) ==
    LET r == load_config(fls[g], wr)
    IN [configs |-> Put(cfgs, g, r.config),
        files |-> [fls EXCEPT ![g] = r.file],
        created |-> g \notin DOMAIN cfgs, wrote |-> r.wrote]

get_config(cfgs, fls, g, wr) ==
    IF g \in DOMAIN cfgs
    THEN [configs |-> cfgs, files |-> fls, created |-> FALSE, wrote |-> FALSE]
    ELSE LET r == load_config(fls[g], wr)
         IN [configs |-> Put(cfgs, g, r.config),
             files |-> [fls EXCEPT ![g] = r.file],
             created |-> TRUE, wrote |-> r.wrote]

-----------------------------------------------------------------------------
(* ModerationCog.ban_with_welcome *)

Ranks == 0 .. MaxRank

\* What one invocation is given: the permissions of the author and of the
\* bot, who the target is, and the positions of the three top roles.
Requests ==
    {r \in [actor_perm : BOOLEAN, bot_perm : BOOLEAN,
            target : {"actor", "bot", "member"},
            target_rank : Ranks, actor_rank : Ranks, bot_rank : Ranks] :
        /\ r.target = "actor" => r.target_rank = r.actor_rank
        /\ r.target = "bot" => r.target_rank = r.bot_rank}

NoRequest ==
    [actor_perm |-> FALSE, bot_perm |-> FALSE, target |-> "member",
     target_rank |-> 0, actor_rank |-> 0, bot_rank |-> 0]

\* `checks` with > for >= in the comparison of the target with the author
checks_strict(req) ==
    << [failed |-> ~req.actor_perm, message |-> "deny:actor_permission"],
       [failed |-> ~req.bot_perm, message |-> "deny:bot_permission"],
       [failed |-> req.target = "actor", message |-> "deny:self"],
       [failed |-> req.target = "bot", message |-> "deny:bot_self"],
       [failed |-> req.target_rank > req.actor_rank,
        message |-> "deny:actor_rank"],
       [failed |-> req.target_rank >= req.bot_rank,
        message |-> "deny:bot_rank"] >>

\* the list `checks`: (condition, message) pairs, all evaluated up front
checks(req) ==
    << [failed |-> ~req.actor_perm, message |-> "deny:actor_permission"],
       [failed |-> ~req.bot_perm, message |-> "deny:bot_permission"],
       [failed |-> req.target = "actor", message |-> "deny:self"],
       [failed |-> req.target = "bot", message |-> "deny:bot_self"],
       [failed |-> req.target_rank >= req.actor_rank,
        message |-> "deny:actor_rank"],
       [failed |-> req.target_rank >= req.bot_rank,
        message |-> "deny:bot_rank"] >>

\* the loop over `checks`: the message of the first condition that is true
first_failed(cs) ==
    LET hit == {i \in 1 .. Len(cs) : cs[i].failed}
    IN IF hit = {} THEN "none"
       ELSE cs[CHOOSE i \in hit : \A j \in hit : i <= j].message

\* ban_with_welcome with the flag tested after the security checks
ban_with_welcome_flag_last(config, req) ==
    IF first_failed(checks(req)) # "none"
    THEN [pc |-> "done", events |-> <<first_failed(checks(req))>>,
          result |-> "False"]
    ELSE IF ~is_enabled(config, "ban_function")
    THEN [pc |-> "done", events |-> <<"deny:disabled">>, result |-> "False"]
    ELSE IF is_enabled(config, "dm_notifications")
    THEN [pc |-> "dm", events |-> <<"dm">>, result |-> "none"]
    ELSE [pc |-> "remove", events |-> <<"ban">>, result |-> "none"]

\* ban_with_welcome from its first line to its first await
ban_with_welcome(config, req) ==
    IF ~is_enabled(config, "ban_function")
    THEN [pc |-> "done", events |-> <<"deny:disabled">>, result |-> "False"]
    ELSE IF first_failed(checks(req)) # "none"
    THEN [pc |-> "done", events |-> <<first_failed(checks(req))>>,
          result |-> "False"]
    ELSE IF is_enabled(config, "dm_notifications")
    THEN [pc |-> "dm", events |-> <<"dm">>, result |-> "none"]
    ELSE [pc |-> "remove", events |-> <<"ban">>, result |-> "none"]

\* what target_user.send and target_user.ban may raise
CallOutcomes == {"ok", "Forbidden", "HTTPException", "Exception"}

\* the three handlers of the outer try
except_message(outcome) ==
    CASE outcome = "Forbidden" -> "error:forbidden"
      [] outcome = "HTTPException" -> "error:http"
      [] OTHER -> "error:unexpected"

\* after `await target_user.send(embed=dm_embed)`: only discord.Forbidden is
\* caught around it; Forbidden is an HTTPException, caught first
after_dm(b, outcome) ==
    IF outcome \in {"ok", "Forbidden"}
    THEN [b EXCEPT !.pc = "remove", !.events = Append(@, "ban")]
    ELSE [b EXCEPT !.pc = "done", !.result = "False",
                   !.events = Append(@, except_message(outcome))]

\* after_ban with a failed removal handled as a failed notification is:
\* logged, and the invocation goes on to the confirmation
after_ban_swallows(b, outcome) ==
    [b EXCEPT !.pc = "done", !.result = "True",
              !.events = Append(@, "confirm")]

\* after `await target_user.ban(...)`
after_ban(b, outcome) ==
    IF outcome = "ok"
    THEN [b EXCEPT !.pc = "done", !.result = "True",
                   !.events = Append(@, "confirm")]
    ELSE [b EXCEPT !.pc = "done", !.result = "False",
                   !.events = Append(@, except_message(outcome))]

NoBan ==
    [pc |-> "idle", via |-> "none", guild |-> "none", req |-> NoRequest,
     enabled |-> FALSE, body |-> FALSE, events |-> <<>>, result |-> "none"]

-----------------------------------------------------------------------------
(* The record of the last operation *)

\* what load_config finds: the four states a guild's file can be in
FileState(file) ==
    IF file.kind # "object" THEN file.kind
    ELSE IF CanonicalKeys \subseteq DOMAIN file.data THEN "complete"
    ELSE "partial"

\* class: "load" for an operation that ran load_config, "toggle" for one that
\* flipped a flag, "other" otherwise; prefile: the state of the guild's file
\* before the operation; before: the value of the named flag before it;
\* again: the operation before this one was of the same class, on the same
\* guild and the same name; session, actor: the view clicked and who clicked.
\* name is the name toggle_function was called with, "none" if it was not.
Note(op, class, g, name, ret, response, wr) ==
    [op |-> op, class |-> class, guild |-> g, name |-> name, ret |-> ret,
     response |-> response, wr |-> wr,
     prefile |-> FileState(files[g]),
     before |-> IF g \in DOMAIN configs /\ name \in DOMAIN configs[g]
                THEN BoolStr(configs[g][name]) ELSE "none",
     again |-> /\ class # "other"
               /\ last.class = class /\ last.guild = g /\ last.name = name,
     session |-> 0, actor |-> "none"]

\* the record of no operation of a guild
NoNote ==
    [op |-> "init", class |-> "other", guild |-> "none",
     name |-> "none", ret |-> "none", response |-> "none",
     wr |-> "none", prefile |-> "none", before |-> "none",
     again |-> FALSE, session |-> 0, actor |-> "none"]

Wr(wrote, wr) == IF wrote THEN wr ELSE "none"

\* the outcomes the next write may have, and the count of failed writes
Outcomes(cost) == IF used + cost < MaxOps THEN WriteOutcomes ELSE {"ok"}
Fault(wrote, wr) == IF wrote /\ wr # "ok" THEN 1 ELSE 0

-----------------------------------------------------------------------------
(* Operations of the store *)

\* The process starts with no BotConfig resident, whatever the files are.
InitWith(start) ==
    /\ files \in [Guilds -> start]
    /\ configs = EmptyDict
    /\ sessions = <<>>
    /\ ban = NoBan
    /\ used = 0
    /\ last = NoNote

\* a first deployment: no guild has a file yet
Init == InitWith({Absent})

\* ModerationCog.get_config(guild_id), as info_command calls it
GetConfig(g) ==
    \E wr \in Outcomes(0) :
        LET r == get_config(configs, files, g, wr) IN
        /\ configs' = r.configs
        /\ files' = r.files
        /\ last' = Note("get_config", IF r.created THEN "load" ELSE "other",
                        g, "none", "none", "info", Wr(r.wrote, wr))
        /\ used' = used + Fault(r.wrote, wr)
        /\ UNCHANGED <<sessions, ban>>

\* BotConfig.load_config() on a resident config
LoadConfig(g) ==
    /\ g \in DOMAIN configs
    /\ \E wr \in Outcomes(0) :
        LET r == load_config(files[g], wr) IN
        /\ configs' = [configs EXCEPT ![g] = r.config]
        /\ files' = [files EXCEPT ![g] = r.file]
        /\ last' = Note("load_config", "load", g, "none", "none", "none",
                        Wr(r.wrote, wr))
        /\ used' = used + Fault(r.wrote, wr)
        /\ UNCHANGED <<sessions, ban>>

\* BotConfig.toggle_function(function_name) on a resident config
ToggleFunction(g, name) ==
    /\ g \in DOMAIN configs
    /\ used < MaxOps
    /\ \E wr \in Outcomes(1) :
        LET r == toggle_function(configs[g], files[g], name, wr) IN
        /\ configs' = [configs EXCEPT ![g] = r.config]
        /\ files' = [files EXCEPT ![g] = r.file]
        /\ last' = Note("toggle_function",
                        IF r.wrote THEN "toggle" ELSE "other",
                        g, name, r.ret, "none", Wr(r.wrote, wr))
        /\ used' = used + 1 + Fault(r.wrote, wr)
        /\ UNCHANGED <<sessions, ban>>

\* Somebody edits, replaces or deletes the file of a guild by hand
ExternalEdit(g, f) ==
    /\ used < MaxOps
    /\ f # files[g]
    /\ files' = [files EXCEPT ![g] = f]
    /\ last' = Note("external_edit", "other", g, "none", "none", "none",
                    "none")
    /\ used' = used + 1
    /\ UNCHANGED <<configs, sessions, ban>>


StoreNext ==
    \/ \E g \in Guilds : GetConfig(g)
    \/ \E g \in Guilds : LoadConfig(g)
    \/ \E g \in Guilds, name \in Names : ToggleFunction(g, name)
    \/ \E g \in Guilds, f \in FileSamples : ExternalEdit(g, f)

Spec == Init /\ [][StoreNext]_vars

-----------------------------------------------------------------------------
(* ControlPanelView: the callbacks of the buttons.  Each gives the config,  *)
(* the file and the state of the view after it, and what it answered.      *)

\* super().__init__(timeout=300): seconds without a click before the view
\* times out
ViewTimeout == 300

\* the step of the clock of the model
TickSeconds == ViewTimeout \div 2

\* the callbacks of the ten buttons
Clicks ==
    {"toggle_callback", "show_detailed_status", "refresh_panel",
     "close_panel"}

Answer(config, file, state, response, ret, wrote, class) ==
    [config |-> config, file |-> file, state |-> state,
     response |-> response, ret |-> ret, wrote |-> wrote, class |-> class]

Denied(view, config, file) ==
    Answer(config, file, view.state, "denied", "none", FALSE, "other")

\* the callback create_toggle_callback(function_name) returns
toggle_callback(view, actor, config, file, name, wr) ==
    IF actor # view.user_id
    THEN Denied(view, config, file)
    ELSE LET r == toggle_function(config, file, name, wr)
         IN Answer(r.config, r.file, view.state, "edited", r.ret, r.wrote,
                   IF r.wrote THEN "toggle" ELSE "other")

show_detailed_status(view, actor, config, file) ==
    IF actor # view.user_id
    THEN Denied(view, config, file)
    ELSE Answer(config, file, view.state, "status", "none", FALSE, "other")

\* refresh_panel without its ownership test
refresh_panel_anyone(view, actor, config, file, wr) ==
    LET r == load_config(file, wr)
    IN Answer(r.config, r.file, view.state, "edited", "none", r.wrote, "load")

refresh_panel(view, actor, config, file, wr) ==
    IF actor # view.user_id
    THEN Denied(view, config, file)
    ELSE LET r == load_config(file, wr)
         IN Answer(r.config, r.file, view.state, "edited", "none", r.wrote,
                   "load")

\* close_panel without its self.stop()
close_panel_no_stop(view, actor, config, file) ==
    IF actor # view.user_id
    THEN Denied(view, config, file)
    ELSE Answer(config, file, view.state, "closed", "none", FALSE, "other")

\* close_panel: edit_message(view=None), then self.stop()
close_panel(view, actor, config, file) ==
    IF actor # view.user_id
    THEN Denied(view, config, file)
    ELSE Answer(config, file, "closed", "closed", "none", FALSE, "other")

\* on_timeout: the embed is built and dropped, then self.clear_items()
on_timeout(view) ==
    [view EXCEPT !.state = "expired", !.items = FALSE]

-----------------------------------------------------------------------------
(* Operations of the panel *)

\* the view control_panel makes for user u in guild g
NewView(g, u) ==
    [guild |-> g, user_id |-> u, state |-> "open",
     shown |-> "panel", items |-> TRUE, idle |-> 0, quiet |-> 0]

\* control_panel / control_panel_slash: administrators only
ControlPanel(g, u, admin) ==
    IF ~admin
    THEN /\ last' = Note("control_panel", "other", g, "none", "none",
                         "denied", "none")
         /\ UNCHANGED <<files, configs, sessions, ban, used>>
    ELSE /\ Len(sessions) < MaxSessions
         /\ used < MaxOps
         /\ \E wr \in Outcomes(1) :
             LET r == get_config(configs, files, g, wr) IN
             /\ configs' = r.configs
             /\ files' = r.files
             /\ sessions' = Append(sessions, NewView(g, u))
             /\ last' = Note("control_panel",
                             IF r.created THEN "load" ELSE "other",
                             g, "none", "none", "panel", Wr(r.wrote, wr))
             /\ used' = used + 1 + Fault(r.wrote, wr)
             /\ UNCHANGED ban

\* A click on a button of view s is dispatched to its callback while the
\* view is alive; r is what the callback did.  The view has no
\* interaction_check of its own, so every click dispatched to it restarts
\* the timeout of the view, a click its callback denies included.
Apply(s, actor, op, name, wr, r) ==
    LET g == sessions[s].guild IN
    /\ configs' = [configs EXCEPT ![g] = r.config]
    /\ files' = [files EXCEPT ![g] = r.file]
    /\ sessions' = [sessions EXCEPT
                        ![s].state = r.state,
                        ![s].shown = IF r.response = "closed"
                                     THEN "closed" ELSE @,
                        ![s].idle = 0,
                        ![s].quiet = IF r.response = "denied" THEN @ ELSE 0]
    /\ last' = [Note(op, r.class, g, name, r.ret, r.response,
                     Wr(r.wrote, wr))
                EXCEPT !.session = s, !.actor = actor]
    /\ UNCHANGED ban

\* the timeout of view s has run out: on_timeout is what happens next
Due(s) ==
    /\ s \in 1 .. Len(sessions)
    /\ sessions[s].state = "open"
    /\ sessions[s].idle >= ViewTimeout

\* view s is in the view store: clicks on its buttons reach its callbacks
Alive(s) ==
    /\ s \in 1 .. Len(sessions)
    /\ sessions[s].state = "open"
    /\ sessions[s].idle < ViewTimeout

ToggleCallback(s, actor, name) ==
    /\ Alive(s)
    /\ used < MaxOps
    /\ \E wr \in Outcomes(1) :
        LET g == sessions[s].guild
            r == toggle_callback(sessions[s], actor, configs[g], files[g],
                                 name, wr)
        IN /\ Apply(s, actor, "toggle_callback",
                    IF r.response = "denied" THEN "none" ELSE name, wr, r)
           /\ used' = used + (IF r.wrote THEN 1 ELSE 0) + Fault(r.wrote, wr)

ShowDetailedStatus(s, actor) ==
    /\ Alive(s)
    /\ LET g == sessions[s].guild
           r == show_detailed_status(sessions[s], actor, configs[g], files[g])
       IN Apply(s, actor, "show_detailed_status", "none", "none", r)
    /\ UNCHANGED used

RefreshPanel(s, actor) ==
    /\ Alive(s)
    /\ \E wr \in Outcomes(0) :
        LET g == sessions[s].guild
            r == refresh_panel(sessions[s], actor, configs[g], files[g], wr)
        IN /\ Apply(s, actor, "refresh_panel", "none", wr, r)
           /\ used' = used + Fault(r.wrote, wr)

ClosePanel(s, actor) ==
    /\ Alive(s)
    /\ LET g == sessions[s].guild
           r == close_panel(sessions[s], actor, configs[g], files[g])
       IN Apply(s, actor, "close_panel", "none", "none", r)
    /\ UNCHANGED used

\* Time passes for the views that wait for a click; a view that stopped
\* has no timer.  No time passes while a timeout is due.
Tick ==
    /\ used < MaxOps
    /\ \E s \in 1 .. Len(sessions) : sessions[s].state = "open"
    /\ \A s \in 1 .. Len(sessions) : ~Due(s)
    /\ sessions' = [s \in 1 .. Len(sessions) |->
                        IF sessions[s].state = "open"
                        THEN [sessions[s] EXCEPT
                                 !.idle = @ + TickSeconds,
                                 !.quiet = @ + TickSeconds]
                        ELSE sessions[s]]
    /\ used' = used + 1
    /\ last' = [NoNote EXCEPT !.op = "tick"]
    /\ UNCHANGED <<files, configs, ban>>

\* The timeout of view s: the view leaves the view store, then on_timeout
\* builds an embed it sends nowhere and clears the items of the view; the
\* message is not edited.
OnTimeout(s) ==
    /\ Due(s)
    /\ sessions' = [sessions EXCEPT ![s] = on_timeout(@)]
    /\ last' = [Note("on_timeout", "other", sessions[s].guild, "none",
                     "none", "none", "none") EXCEPT !.session = s]
    /\ UNCHANGED <<files, configs, ban, used>>

\* A click on a button of a view that timed out or was stopped: the view
\* store has no such view, no callback runs and nothing is answered.
DeadClick(s, actor, op) ==
    /\ s \in 1 .. Len(sessions)
    /\ sessions[s].state # "open"
    /\ last' = [Note(op, "other", sessions[s].guild, "none", "none",
                     "ignored", "none")
                EXCEPT !.session = s, !.actor = actor]
    /\ UNCHANGED <<files, configs, sessions, ban, used>>

\* what an administrator leaves in a file while panels are open
PanelEdits == {Corrupt, Object(Legacy)}

\* the buttons clicked while the clocks of the views are watched
SessionKeys == {"ban_function", "logs"}

PanelNext ==
    \/ \E g \in Guilds, u \in Users, admin \in BOOLEAN : ControlPanel(g, u, admin)
    \/ \E s \in 1 .. MaxSessions, a \in Users, name \in CanonicalKeys :
          ToggleCallback(s, a, name)
    \/ \E s \in 1 .. MaxSessions, a \in Users : ShowDetailedStatus(s, a)
    \/ \E s \in 1 .. MaxSessions, a \in Users : RefreshPanel(s, a)
    \/ \E s \in 1 .. MaxSessions, a \in Users : ClosePanel(s, a)
    \/ \E g \in Guilds, f \in PanelEdits : ExternalEdit(g, f)

PanelSpec == Init /\ [][PanelNext]_vars

\* the administrator who opened the s-th panel: the two take turns
OwnerOf(s) == IF s % 2 = 1 THEN "u1" ELSE "u2"

\* MaxSessions panels are open, each in any guild; the guilds that have a
\* panel were loaded from no file and saved.
PanelsOpen ==
    /\ \E gs \in [1 .. MaxSessions -> Guilds] :
          sessions = [s \in 1 .. MaxSessions |-> NewView(gs[s], OwnerOf(s))]
    /\ configs = [g \in {sessions[s].guild : s \in 1 .. MaxSessions}
                    |-> default_config]
    /\ files = [g \in Guilds |->
                    IF g \in DOMAIN configs
                    THEN Object(default_config) ELSE Absent]
    /\ ban = NoBan
    /\ used = 0
    /\ last = NoNote

\* clicks on the toggles of the open panels, by anyone, in any order
ToggleNext ==
    \E s \in 1 .. MaxSessions, a \in Users, name \in CanonicalKeys :
        ToggleCallback(s, a, name)

ToggleSpec == PanelsOpen /\ [][ToggleNext]_vars

\* The life of the views: the panels and their buttons as time passes, with
\* no edit of the files from outside.
SessionNext ==
    \/ \E g \in Guilds, u \in Users : ControlPanel(g, u, TRUE)
    \/ \E s \in 1 .. MaxSessions, a \in Users, name \in SessionKeys :
          ToggleCallback(s, a, name)
    \/ \E s \in 1 .. MaxSessions, a \in Users : ShowDetailedStatus(s, a)
    \/ \E s \in 1 .. MaxSessions, a \in Users : RefreshPanel(s, a)
    \/ \E s \in 1 .. MaxSessions, a \in Users : ClosePanel(s, a)
    \/ Tick
    \/ \E s \in 1 .. MaxSessions : OnTimeout(s)
    \/ \E s \in 1 .. MaxSessions, a \in Users, op \in Clicks :
          DeadClick(s, a, op)

SessionSpec == Init /\ [][SessionNext]_vars

-----------------------------------------------------------------------------
(* Operations of the ban *)

\* the ban_function flag a call of get_config(g) would find
FlagOf(g) ==
    is_enabled(get_config(configs, files, g, "denied").configs[g],
               "ban_function")

Started(via, g, req, body, b) ==
    [pc |-> b.pc, via |-> via, guild |-> g,
     req |-> IF body THEN req ELSE NoRequest,
     enabled |-> FlagOf(g), body |-> body, events |-> b.events,
     result |-> b.result]

\* get_config(g), then ban_with_welcome up to its first await
BanBody(via, g, req) ==
    \E wr \in Outcomes(0) :
        LET r == get_config(configs, files, g, wr) IN
        /\ configs' = r.configs
        /\ files' = r.files
        /\ ban' = Started(via, g, req, TRUE,
                          ban_with_welcome(r.configs[g], req))
        /\ last' = Note(via, IF r.created THEN "load" ELSE "other", g,
                        "none", "none", "none", Wr(r.wrote, wr))
        /\ used' = used + Fault(r.wrote, wr)
        /\ UNCHANGED sessions

\* ban_command: has_permissions and bot_has_permissions run before the
\* body and raise into ban_error, which calls get_config and answers
BanCommandRefused(g, actor_perm, bot_perm) ==
    /\ ban.pc = "idle"
    /\ ~(actor_perm /\ bot_perm)
    /\ \E wr \in Outcomes(0) :
        LET r == get_config(configs, files, g, wr) IN
        /\ configs' = r.configs
        /\ files' = r.files
        /\ ban' = Started("ban_command", g, NoRequest, FALSE,
                [pc |-> "done", result |-> "none",
                 events |-> IF ~actor_perm
                            THEN <<"deny:missing_permissions">>
                            ELSE <<"deny:bot_missing_permissions">>])
        /\ last' = Note("ban_error", IF r.created THEN "load" ELSE "other",
                        g, "none", "none", "none", Wr(r.wrote, wr))
        /\ used' = used + Fault(r.wrote, wr)
        /\ UNCHANGED sessions

\* ban_command with both decorators passed: the arguments are converted
\* (an await), then the body runs with the permissions as they are by then
BanCommand(g, req) ==
    /\ ban.pc = "idle"
    /\ BanBody("ban_command", g, req)

\* ban_slash: its own permission check, then the body at once
BanSlash(g, req) ==
    /\ ban.pc = "idle"
    /\ IF ~req.actor_perm
       THEN /\ ban' = Started("ban_slash", g, req, FALSE,
                    [pc |-> "done", result |-> "none",
                     events |-> <<"deny:actor_permission">>])
            /\ last' = Note("ban_slash", "other", g, "none", "none", "none",
                            "none")
            /\ UNCHANGED <<files, configs, sessions, used>>
       ELSE BanBody("ban_slash", g, req)

\* target_user.send returns or raises
DmDone(outcome) ==
    /\ ban.pc = "dm"
    /\ ban' = after_dm(ban, outcome)
    /\ last' = Note("dm_done", "other", ban.guild, "none", outcome, "none",
                    "none")
    /\ UNCHANGED <<files, configs, sessions, used>>

\* target_user.ban returns or raises
BanDone(outcome) ==
    /\ ban.pc = "remove"
    /\ ban' = after_ban(ban, outcome)
    /\ last' = Note("ban_done", "other", ban.guild, "none", outcome, "none",
                    "none")
    /\ UNCHANGED <<files, configs, sessions, used>>

\* files that make the two flags the ban reads differ from guild to guild
DmOff == Put(EmptyDict, "dm_notifications", FALSE)
BanFiles == {Absent, Object(OnlyBanOff), Object(DmOff)}
BanInit == InitWith(BanFiles)

BanNext ==
    \/ \E g \in Guilds, ap \in BOOLEAN, bp \in BOOLEAN :
          BanCommandRefused(g, ap, bp)
    \/ \E g \in Guilds, req \in Requests : BanCommand(g, req)
    \/ \E g \in Guilds, req \in Requests : BanSlash(g, req)
    \/ \E outcome \in CallOutcomes : DmDone(outcome)
    \/ \E outcome \in CallOutcomes : BanDone(outcome)
    \/ \E g \in Guilds : GetConfig(g)

BanSpec == BanInit /\ [][BanNext]_vars

\* a request that passes every check: a member below the author and the bot
PassingRequests ==
    {r \in Requests :
        /\ r.actor_perm /\ r.bot_perm /\ r.target = "member"
        /\ r.target_rank = 0
        /\ r.actor_rank = MaxRank /\ r.bot_rank = MaxRank}

\* One process from its start: the operations that read or write the
\* flags of a guild (panels, toggles, detailed status, refresh, a ban whose
\* calls succeed), with nobody else writing the files.
ProcessNext ==
    \/ \E g \in Guilds, u \in Users : ControlPanel(g, u, TRUE)
    \/ \E s \in 1 .. MaxSessions, a \in Users, name \in SessionKeys :
          ToggleCallback(s, a, name)
    \/ \E s \in 1 .. MaxSessions, a \in Users : ShowDetailedStatus(s, a)
    \/ \E s \in 1 .. MaxSessions, a \in Users : RefreshPanel(s, a)
    \/ \E g \in Guilds, req \in PassingRequests : BanCommand(g, req)
    \/ DmDone("ok")
    \/ BanDone("ok")

ProcessSpec == Init /\ [][ProcessNext]_vars

-----------------------------------------------------------------------------
(* The configuration store: C1 - C6, checked under Spec *)

\* the seven values the specification lists for a fresh guild
FreshFlags ==
    [ban_function |-> TRUE, welcome_messages |-> TRUE,
     auto_moderation |-> FALSE, logs |-> TRUE, dm_notifications |-> TRUE,
     anti_spam |-> FALSE, auto_role |-> FALSE]

\* the operation just performed constructed the BotConfig of its guild
Constructed == last.op = "get_config" /\ last.class = "load"

\* C1 as stated: the first load of a guild with no file yields exactly the
\* seven default flags in memory, and afterwards the guild's file exists and
\* holds exactly those seven values.
C1_FreshGuildFileCreated ==
    (Constructed /\ last.prefile = "absent") =>
        /\ configs[last.guild] = FreshFlags
        /\ files[last.guild] = Object(FreshFlags)

\* C1 as amended: the first load of a guild with no file yields exactly the
\* seven default flags in memory; the file holds exactly those values
\* afterwards if the write of save_config succeeded, and is no flag file (it
\* is still absent, or was left truncated) if the write failed.
C1_FreshGuildDefaults ==
    (Constructed /\ last.prefile = "absent") =>
        /\ configs[last.guild] = FreshFlags
        /\ last.wr = "ok" => files[last.guild] = Object(FreshFlags)
        /\ last.wr # "ok" => files[last.guild] \in {Absent, Corrupt}

C1_Witness ==
    /\ Constructed /\ last.prefile = "absent" /\ last.wr = "ok"
    /\ configs[last.guild] = FreshFlags
    /\ files[last.guild] = Object(FreshFlags)

\* what C2 says of a load of guild g that found the mapping `data`: every
\* stored key keeps its stored value, every missing canonical key gets its
\* default, and nothing else is added
Merged(data, config) ==
    /\ DOMAIN config = DOMAIN data \cup DOMAIN FreshFlags
    /\ \A k \in DOMAIN data : config[k] = data[k]
    /\ \A k \in DOMAIN FreshFlags \ DOMAIN data : config[k] = FreshFlags[k]

\* C2 as stated: a load of a readable flag mapping keeps every stored key at
\* its stored value (non-canonical keys too), adds each missing canonical key
\* with its default, and writes the merged mapping back, so that the file
\* equals the in-memory flags.
C2_MergeWrittenBack ==
    [][\A g \in Guilds :
        (last'.class = "load" /\ last'.guild = g /\ files[g].kind = "object")
        => /\ Merged(files[g].data, configs'[g])
           /\ files'[g] = Object(configs'[g])]_vars

\* C2 as amended: a load of a readable flag mapping keeps every stored key at
\* its stored value (non-canonical keys too) and adds each missing canonical
\* key with its default; the file equals the in-memory flags afterwards if
\* the write-back succeeded, and is the old file or a truncated one if not.
C2_MergeBackfill ==
    [][\A g \in Guilds :
        (last'.class = "load" /\ last'.guild = g /\ files[g].kind = "object")
        => /\ Merged(files[g].data, configs'[g])
           /\ last'.wr = "ok" => files'[g] = Object(configs'[g])
           /\ last'.wr # "ok" => files'[g] \in {files[g], Corrupt}]_vars

C2_Witness ==
    /\ last.class = "load" /\ last.prefile = "partial" /\ last.wr = "ok"
    /\ configs[last.guild]["ban_function"] = FALSE
    /\ configs[last.guild]["logs"] = TRUE
    /\ ExtraKey \in DOMAIN configs[last.guild]
    /\ files[last.guild] = Object(configs[last.guild])

\* C3: a load that finds the guild's file unreadable ends with the in-memory
\* flags equal to the defaults and with those defaults persisted, so that the
\* file holds all seven canonical keys after it.
C3_SelfHealing ==
    (last.class = "load" /\ last.prefile = "corrupt") =>
        /\ configs[last.guild] = FreshFlags
        /\ files[last.guild] = Object(FreshFlags)

\* the operation ran load_config, or returned the resident flags
IsLoad(l) == l.class = "load" \/ l.op = "get_config"

\* C4: a load of a guild followed at once by a second load of that guild,
\* nothing in between, leaves the in-memory flags as the first load left
\* them.
C4_LoadTwice ==
    [][\A g \in Guilds :
        (IsLoad(last) /\ last.guild = g /\ IsLoad(last') /\ last'.guild = g)
        => configs'[g] = configs[g]]_vars

\* C5: a toggle of a canonical name changes no other flag and returns the
\* value the flag holds after it, and the second of two toggles of the same
\* name in a row gives the flag the value it had before the first.
C5_ToggleTwice ==
    [][\A g \in Guilds, n \in DOMAIN FreshFlags :
        (last'.class = "toggle" /\ last'.guild = g /\ last'.name = n)
        => /\ DOMAIN configs'[g] = DOMAIN configs[g]
           /\ \A k \in DOMAIN configs[g] \ {n} :
                 configs'[g][k] = configs[g][k]
           /\ \A h \in DOMAIN configs \ {g} : configs'[h] = configs[h]
           /\ last'.ret = BoolStr(configs'[g][n])
           /\ configs'[g][n] # configs[g][n]
           /\ (last.class = "toggle" /\ last.guild = g /\ last.name = n)
                => BoolStr(configs'[g][n]) = last.before]_vars

C5_Witness ==
    /\ last.class = "toggle" /\ last.again
    /\ last.name \in DOMAIN FreshFlags
    /\ last.ret # last.before

\* C6: toggle_function with a name that is no key of the current flags
\* returns None, writes nothing, and leaves the in-memory flags and the file
\* as they were.
C6_UnknownNameFrame ==
    [][(/\ last'.op = "toggle_function"
        /\ last'.guild \in DOMAIN configs
        /\ last'.name \notin DOMAIN configs[last'.guild])
       => /\ last'.ret = "None"
          /\ last'.wr = "none"
          /\ UNCHANGED <<files, configs>>]_vars

C6_Witness ==
    /\ last.op = "toggle_function" /\ last.ret = "None"
    /\ last.name \notin DOMAIN configs[last.guild]

-----------------------------------------------------------------------------
(* The panel: C7, checked under PanelSpec *)

\* C7: a click on any control of a live panel by a user who is not its
\* owner changes no flag in memory or on disk, does not reload from storage,
\* does not close the session (it only restarts the timeout of the view),
\* and is answered with a denial.
C7_NonOwnerDenied ==
    [][(/\ last'.op \in Clicks
        /\ Alive(last'.session)
        /\ last'.actor # sessions[last'.session].user_id)
       => /\ UNCHANGED <<files, configs, used>>
          /\ sessions' = [sessions EXCEPT ![last'.session].idle = 0]
          /\ last'.response = "denied"
          /\ last'.class = "other"
          /\ last'.wr = "none"]_vars

\* a refresh was denied although the file had flags the memory had not
C7_Witness ==
    /\ last.op = "refresh_panel" /\ last.response = "denied"
    /\ last.actor # sessions[last.session].user_id
    /\ last.prefile = "partial"
    /\ sessions[last.session].state = "open"
    /\ files[last.guild] # Object(configs[last.guild])

-----------------------------------------------------------------------------
(* The life of a panel: C11 and C13, checked under SessionSpec *)

\* C11: a panel with no accepted interaction for the five minutes of
\* ViewTimeout, counted from its creation or from its last accepted
\* interaction, expires by itself (as soon as that time is over its timeout
\* is due); an expired panel shows the expiry notice and has no controls;
\* and a toggle attempted on an expired panel, by its owner too, changes no
\* flag in memory or on disk.
C11_IdleExpiry ==
    /\ [](\A s \in 1 .. Len(sessions) :
            /\ (sessions[s].state = "open" /\ sessions[s].quiet >= ViewTimeout)
                  => Due(s)
            /\ sessions[s].state = "expired"
                  => sessions[s].shown = "expired" /\ ~sessions[s].items)
    /\ [][(/\ last'.op = "toggle_callback"
            /\ sessions[last'.session].state = "expired")
           => UNCHANGED <<files, configs>>]_vars

-----------------------------------------------------------------------------
(* Failed writes: C12, checked under ProcessSpec, where nothing but the     *)
(* process writes the files: the file of a resident guild differs from the *)
(* flags in memory only after a write of save_config failed.               *)

\* the flags `config` with flag `name` flipped in memory
Flipped(config, name) ==
    IF name \in DOMAIN config
    THEN [config EXCEPT ![name] = ~@]
    ELSE config

\* guild g is resident and its file does not hold its flags
Unsaved(g) == g \in DOMAIN configs /\ files[g] # Object(configs[g])

\* the step is a toggle of a flag of g, done on the flags in memory
TogglesMemory(g) ==
    /\ last'.class = "toggle" /\ last'.guild = g
    /\ configs'[g] = Flipped(configs[g], last'.name)

\* a write that failed was not raised: the operation ended as it does
\* after a write that succeeded
NotRaised ==
    last'.wr \in {"denied", "torn"} =>
        /\ last'.class = "toggle" =>
              last'.ret = BoolStr(configs'[last'.guild][last'.name])
        /\ last'.op \in Clicks => last'.response = "edited"
        /\ last'.op = "control_panel" => last'.response = "panel"

\* C12 as stated: a failed write is not raised to the caller, and after a
\* failed write the flags in memory stay authoritative: every later
\* operation of the process (toggle, refresh, detailed status, ban, opening
\* another panel) leaves them as they are, or flips one of them in memory;
\* none replaces them with what the file holds.
C12_MemoryAuthoritative ==
    [][/\ NotRaised
       /\ \A g \in Guilds :
            Unsaved(g) => (configs'[g] = configs[g] \/ TogglesMemory(g))]_vars

\* the step is a refresh of a panel of g by its owner, and the flags after
\* it are what load_config makes of the file
ReloadsFile(g) ==
    /\ last'.op = "refresh_panel" /\ last'.guild = g
    /\ last'.actor = sessions[last'.session].user_id
    /\ IF files[g].kind = "object"
       THEN Merged(files[g].data, configs'[g])
       ELSE configs'[g] = FreshFlags

\* C12 as amended: a failed write is not raised to the caller, and after a
\* failed write every later operation of the process but one leaves the
\* flags in memory as they are or flips one of them in memory (toggle,
\* detailed status, ban, opening another panel, the info command); the one
\* is the owner's refresh, which reloads from storage: it replaces the
\* flags with the stale values of the file, or with the defaults if the
\* failed write left the file unreadable or absent.
C12_MemoryUntilRefresh ==
    [][/\ NotRaised
       /\ \A g \in Guilds :
            Unsaved(g) =>
                \/ configs'[g] = configs[g]
                \/ TogglesMemory(g)
                \/ ReloadsFile(g)]_vars

\* a ban ran after the write of a toggle of ban_function had failed: the
\* file says one thing, the memory the other, and the ban went by the memory
C12_Witness ==
    /\ last.op = "ban_command" /\ ban.body
    /\ Unsaved(last.guild)
    /\ files[last.guild].kind = "object"
    /\ files[last.guild].data["ban_function"] = TRUE
    /\ configs[last.guild]["ban_function"] = FALSE
    /\ ~ban.enabled /\ ban.events = <<"deny:disabled">>

-----------------------------------------------------------------------------
(* The ban: C8 - C10, checked under BanSpec *)

Has(events, e) == \E i \in 1 .. Len(events) : events[i] = e

\* C8 as stated: a ban attempted while the guild's ban_function flag is
\* false ends with the `feature disabled` denial and nothing else: no
\* permission check has answered, nothing was sent to the target, nobody was
\* removed.
C8_DisabledBeforePermissions ==
    (ban.pc # "idle" /\ ~ban.enabled) =>
        /\ ban.pc = "done"
        /\ ban.events = <<"deny:disabled">>

\* the denials of the entry points: ban_error for the two decorators of
\* ban_command, and the permission test of ban_slash
EntryDenials ==
    {"deny:missing_permissions", "deny:bot_missing_permissions",
     "deny:actor_permission"}

\* C8 as amended: a ban attempted while the guild's ban_function flag is
\* false sends no notification and removes nobody; once ban_with_welcome is
\* entered it ends with the `feature disabled` denial before any check of
\* its list runs; but the permission tests of the entry points (the
\* decorators of ban_command, the test of ban_slash) run before it, and an
\* invocation they refuse ends with their permission denial instead.
C8_DisabledNoRemoval ==
    (ban.pc # "idle" /\ ~ban.enabled) =>
        /\ ban.pc = "done"
        /\ ~Has(ban.events, "dm") /\ ~Has(ban.events, "ban")
        /\ ban.body => ban.events = <<"deny:disabled">>
        /\ ~ban.body =>
              Len(ban.events) = 1 /\ ban.events[1] \in EntryDenials

\* the flag is off and the author names themself as the target: the denial
\* is `feature disabled`, the check of the target was never reached
C8_Witness ==
    /\ ban.pc = "done" /\ ~ban.enabled /\ ban.body
    /\ ban.req.actor_perm /\ ban.req.bot_perm /\ ban.req.target = "actor"
    /\ ban.events = <<"deny:disabled">>

\* the denial C9 expects of a request: that of the first check that fails,
\* in the order the claim gives
ExpectedDenial(req) ==
    IF ~req.actor_perm THEN "deny:actor_permission"
    ELSE IF ~req.bot_perm THEN "deny:bot_permission"
    ELSE IF req.target = "actor" THEN "deny:self"
    ELSE IF req.target = "bot" THEN "deny:bot_self"
    ELSE IF req.target_rank >= req.actor_rank THEN "deny:actor_rank"
    ELSE IF req.target_rank >= req.bot_rank THEN "deny:bot_rank"
    ELSE "none"

\* C9: with ban_function enabled, ban_with_welcome answers with the denial
\* of the first failing check, in the order actor permission, bot
\* permission, self, bot itself, rank against the author, rank against the
\* bot, and with that denial only; when a check fails (a target rank equal
\* to the author's included) nothing is sent to the target and nobody is
\* removed; when none fails no denial is given.
C9_FirstFailingCheck ==
    (ban.body /\ ban.enabled) =>
        /\ ExpectedDenial(ban.req) # "none" =>
              /\ ban.pc = "done"
              /\ ban.result = "False"
              /\ ban.events = <<ExpectedDenial(ban.req)>>
        /\ ExpectedDenial(ban.req) = "none" =>
              ban.events[1] \in {"dm", "ban"}

\* equal ranks: the target is as high as the author, the bot is above both
C9_Witness ==
    /\ ban.body /\ ban.enabled /\ ban.pc = "done"
    /\ ban.req.actor_perm /\ ban.req.bot_perm /\ ban.req.target = "member"
    /\ ban.req.target_rank = ban.req.actor_rank
    /\ ban.req.target_rank < ban.req.bot_rank
    /\ ban.events = <<"deny:actor_rank">>

\* C10: when the checks pass and dm_notifications is on, the notification
\* is attempted first and the removal is attempted after it whatever became
\* of the notification.
C10_RemovalAfterAnyDmFailure ==
    (ban.pc = "done" /\ Has(ban.events, "dm")) =>
        /\ ban.events[1] = "dm"
        /\ Len(ban.events) >= 2 /\ ban.events[2] = "ban"

\* how many times e is among the events
Times(events, e) == Cardinality({i \in 1 .. Len(events) : events[i] = e})

\* the messages of the three handlers of the outer try
RemovalErrors == {"error:forbidden", "error:http", "error:unexpected"}

\* the denials of the flag test and of the six checks
CheckDenials ==
    {"deny:disabled", "deny:actor_permission", "deny:bot_permission",
     "deny:self", "deny:bot_self", "deny:actor_rank", "deny:bot_rank"}

\* C14: in one invocation the removal is attempted at most once; when it
\* has just failed, the invocation is over with one error reported, which
\* is none of the denials of the checks, with no confirmation, with the
\* result False, and with no second notification or removal.
C14_RemovalOnceNoRetry ==
    /\ Times(ban.events, "ban") <= 1
    /\ (last.op = "ban_done" /\ last.ret # "ok") =>
          /\ ban.pc = "done"
          /\ ban.result = "False"
          /\ Times(ban.events, "ban") = 1
          /\ Times(ban.events, "dm") <= 1
          /\ ~Has(ban.events, "confirm")
          /\ ban.events[Len(ban.events)] \in RemovalErrors \ CheckDenials
          /\ \A i \in 1 .. Len(ban.events) - 1 :
                /\ ban.events[i] \in {"dm", "ban"}
                /\ ban.events[i] = "ban" => i = Len(ban.events) - 1

\* the notification went out, then the removal was refused
C14_Witness ==
    /\ last.op = "ban_done" /\ last.ret = "Forbidden"
    /\ ban.events = <<"dm", "ban", "error:forbidden">>
    /\ ban.result = "False"

-----------------------------------------------------------------------------
(* Toggles from several panels: C15, checked under ToggleSpec.  The        *)
(* callback has no await before toggle_function has returned, so every     *)
(* toggle is one step, and the steps of the panels interleave.             *)

\* C15: the panels of a guild work on the one flags record of the guild,
\* and no toggle is lost: every accepted toggle whose write succeeds, from
\* whichever panel and after whichever toggles of the other panels, flips
\* its flag from the value the flag has at that moment, changes no other
\* flag, leaves the file of the guild equal to the flags of the guild, and
\* changes neither the flags nor the file of another guild; and no step
\* that is not an accepted toggle changes any flag or file.
C15_NoLostToggle ==
    [][/\ (/\ last'.op = "toggle_callback" /\ last'.response = "edited"
            /\ last'.wr = "ok")
           => LET g == sessions[last'.session].guild
                  n == last'.name
              IN /\ last'.actor = sessions[last'.session].user_id
                 /\ n \in CanonicalKeys
                 /\ configs'[g] = Flipped(configs[g], n)
                 /\ configs'[g][n] # configs[g][n]
                 /\ files'[g] = Object(configs'[g])
                 /\ \A h \in DOMAIN configs \ {g} : configs'[h] = configs[h]
                 /\ \A h \in Guilds \ {g} : files'[h] = files[h]
       /\ last'.response # "edited" => UNCHANGED <<configs, files>>]_vars

\* two panels of one guild, of two owners; the second panel has just
\* toggled the flag the toggle before it had toggled, and the flag is back
\* at its first value, in memory and in the file
C15_Witness ==
    /\ Len(sessions) >= 2
    /\ sessions[1].guild = sessions[2].guild
    /\ sessions[1].user_id # sessions[2].user_id
    /\ last.op = "toggle_callback" /\ last.session = 2 /\ last.wr = "ok"
    /\ last.again /\ used = 2
    /\ configs[last.guild] = default_config
    /\ files[last.guild] = Object(default_config)

====
